---- MODULE Spec2Model ----
(***************************************************************************)
(* Model of the apifakturownia client library: the request dispatcher      *)
(* FakturowniaApiClient._make_request, the InvoicesEndpoint operations,    *)
(* the pydantic document model and the exception taxonomy.                 *)
(*                                                                         *)
(* All calls are synchronous.  A caller is either idle or has just got the *)
(* outcome of one call; each call is one atomic action that records what   *)
(* was handed to the transport (sent), the transport's behaviour for that  *)
(* call (resp) and what the caller observes (outcome).                     *)
(*                                                                         *)
(* Python dictionaries are objects: a mapping lives in a heap (a sequence  *)
(* of functions from keys to values) and is passed by reference, so that   *)
(* copying and aliasing are visible.                                       *)
(***************************************************************************)
EXTENDS Integers, Sequences, FiniteSets, TLC

VARIABLES
    heap,       \* the caller-owned dictionaries, by reference 1..Len(heap)
    orig,       \* their contents when the caller built them
    positions,  \* the caller's list of constructed InvoicePositionDTO
    doc,        \* the caller's constructed InvoiceDTO, or None
    pc,         \* "idle", or "done" right after a call
    op,         \* the operation last called
    args,       \* its arguments
    resp,       \* how the transport behaves for that call
    sent,       \* the requests handed to the transport during the call
    outcome     \* what the caller observes: a return value or an exception

vars == <<heap, orig, positions, doc, pc, op, args, resp, sent, outcome>>

-----------------------------------------------------------------------------
(* Python values.  Every value is a one-field record, so that values of     *)
(* different types are comparable.                                          *)

None == [none |-> TRUE]
S(x) == [str |-> x]
I(n) == [int |-> n]
B(b) == [bool |-> b]
Ref(r) == [ref |-> r]
Obj(f) == [obj |-> f]
Arr(s) == [arr |-> s]
Dto(d) == [dto |-> d]

IsRef(v) == "ref" \in DOMAIN v
IsObj(v) == "obj" \in DOMAIN v
IsArr(v) == "arr" \in DOMAIN v
IsInt(v) == "int" \in DOMAIN v
IsStr(v) == "str" \in DOMAIN v

EmptyDict == [k \in {} |-> None]

DictSet(d, k, v) == [x \in DOMAIN d \cup {k} |-> IF x = k THEN v ELSE d[x]]

\* dict.update(other)
DictUpdate(d, other) ==
    [x \in DOMAIN d \cup DOMAIN other |-> IF x \in DOMAIN other THEN other[x] ELSE d[x]]

\* Python truth value of a value (not of a reference)
Truthy(v) ==
    CASE v = None -> FALSE
      [] IsObj(v) -> v.obj # EmptyDict
      [] IsArr(v) -> v.arr # <<>>
      [] IsStr(v) -> v.str # ""
      [] IsInt(v) -> v.int # 0
      [] "bool" \in DOMAIN v -> v.bool
      [] OTHER -> TRUE

\* truth value of an argument that is None or a reference to a dictionary
TruthyArg(h, a) == IF a = None THEN FALSE ELSE h[a.ref] # EmptyDict

\* a new dictionary object with contents d
NewDict(h, d) == [heap |-> Append(h, d), ref |-> Len(h) + 1]

\* dict.copy(): a new object with the same keys and (shared) values
DictCopyAlias(h, r) == [heap |-> h, ref |-> r]
DictCopy(h, r) == [heap |-> Append(h, h[r]), ref |-> Len(h) + 1]

\* the value a dictionary serialises to: references followed
RECURSIVE Deref(_, _)
Deref(h, v) ==
    IF IsRef(v)
    THEN Obj([k \in DOMAIN h[v.ref] |-> Deref(h, h[v.ref][k])])
    ELSE v

-----------------------------------------------------------------------------
(* Client configuration, set once by FakturowniaApiClient.__init__          *)

domain == "acme"
api_token == "SECRET-TOKEN"
request_timeout == 10
base_url == <<"https://", domain, ".fakturownia.pl">>
session_headers == [Accept |-> "application/json", ContentType |-> "application/json"]

VOID_STATUS == "anulowana"
MaxPerPage == 100

endpoint_base == <<"/invoices.json">>
ItemEndpoint(invoice_id) == <<"/invoices/", ToString(invoice_id), ".json">>
ChangeStatusEndpoint(invoice_id) == <<"/invoices/", ToString(invoice_id), "/change_status.json">>

-----------------------------------------------------------------------------
(* Outcomes of a call                                                       *)

Absent == [absent |-> TRUE]

Return(v) ==
    [tag |-> "return", value |-> v, exc |-> "", status_code |-> Absent,
     details |-> Absent, message |-> Absent]

\* an exception that is not one of errors.py: it has no status_code or details
Raise(e) ==
    [tag |-> "raise", value |-> Absent, exc |-> e, status_code |-> Absent,
     details |-> Absent, message |-> Absent]

\* errors.py: FakturowniaAPIException.__init__, shared by the four subclasses
FakturowniaAPIException(cls, message, status_code, details) ==
    [tag |-> "raise", value |-> Absent, exc |-> cls, status_code |-> status_code,
     details |-> IF Truthy(details) THEN details ELSE Obj(EmptyDict),
     message |-> message]

Taxonomy ==
    {"FakturowniaAPIException", "AuthenticationError", "ValidationError",
     "ResourceNotFoundError", "ServerError"}

-----------------------------------------------------------------------------
(* The transport (requests.Session.request) and its responses               *)

TransportFailures == {"ConnectionError", "Timeout"}

Statuses == {200, 204, 299, 300, 400, 401, 403, 404, 422, 499, 500, 599, 600}

ErrorBody == "{\"error\":\"not found\"}"
HtmlBody == "<html>error</html>"
ListBody == "[{\"id\":1},{\"id\":2}]"
InvoiceBody == "{\"id\":7,\"kind\":\"vat\",\"sell_date\":\"2024-01-02\",\"issue_date\":\"2024-01-02\",\"positions\":[{\"name\":\"a\",\"quantity\":1,\"total_price_gross\":\"10\",\"tax\":23}],\"view_url\":\"u\"}"

Contents == {"", ErrorBody, HtmlBody, ListBody, InvoiceBody}

Responses ==
    [exception : TransportFailures] \cup [status_code : Statuses, content : Contents]

TransportFailed(response) == "exception" \in DOMAIN response

InvoiceJson ==
    Obj([k \in {"id", "kind", "sell_date", "issue_date", "positions", "view_url"} |->
         CASE k = "id" -> I(7)
           [] k = "kind" -> S("vat")
           [] k = "sell_date" -> S("2024-01-02")
           [] k = "issue_date" -> S("2024-01-02")
           [] k = "positions" ->
                Arr(<<Obj([f \in {"name", "quantity", "total_price_gross", "tax"} |->
                           CASE f = "name" -> S("a")
                             [] f = "quantity" -> I(1)
                             [] f = "total_price_gross" -> S("10")
                             [] f = "tax" -> I(23)])>>)
           [] k = "view_url" -> S("u")])

\* response.json(): the decoded body, or requests.JSONDecodeError
JsonDecode(content) ==
    CASE content = ErrorBody ->
            [ok |-> TRUE, value |-> Obj([k \in {"error"} |-> S("not found")])]
      [] content = ListBody ->
            [ok |-> TRUE,
             value |-> Arr(<<Obj([k \in {"id"} |-> I(1)]), Obj([k \in {"id"} |-> I(2)])>>)]
      [] content = InvoiceBody -> [ok |-> TRUE, value |-> InvoiceJson]
      [] OTHER -> [ok |-> FALSE, value |-> Absent]

NetworkMessage(e) == [fmt |-> "Blad sieciowy podczas komunikacji z API", cause |-> e]
DecodeMessage == [fmt |-> "Nie udalo sie zdekodowac odpowiedzi JSON."]
HttpMessage(response) ==
    [fmt |-> "Blad API Fakturownia (HTTP)", status |-> response.status_code,
     text |-> response.content]

\* except requests.exceptions.RequestException
TransportFailureAsDecodeError(response) ==
    FakturowniaAPIException("FakturowniaAPIException", DecodeMessage, None, None)
TransportFailure(response) ==
    FakturowniaAPIException("FakturowniaAPIException",
                            NetworkMessage(response.exception), None, None)

\* status 200..299
SuccessIgnoring204(response) ==
    IF response.content = ""
    THEN Return(None)
    ELSE IF JsonDecode(response.content).ok
         THEN Return(JsonDecode(response.content).value)
         ELSE FakturowniaAPIException("FakturowniaAPIException", DecodeMessage, None, None)
SuccessResult(response) ==
    IF response.status_code = 204 \/ response.content = ""
    THEN Return(None)
    ELSE IF JsonDecode(response.content).ok
         THEN Return(JsonDecode(response.content).value)
         ELSE FakturowniaAPIException("FakturowniaAPIException", DecodeMessage, None, None)

\* every other status: response.json() is not guarded here
ErrorResult(response) ==
    IF response.content # "" /\ ~JsonDecode(response.content).ok
    THEN Raise("JSONDecodeError")
    ELSE LET error_details ==
                 IF response.content # "" THEN JsonDecode(response.content).value ELSE None
             error_message == HttpMessage(response)
             status_code == response.status_code
             cls == IF status_code = 400 THEN "ValidationError"
                    ELSE IF status_code = 401 \/ status_code = 403 THEN "AuthenticationError"
                    ELSE IF status_code = 404 THEN "ResourceNotFoundError"
                    ELSE IF 500 <= status_code /\ status_code < 600 THEN "ServerError"
                    ELSE "FakturowniaAPIException"
         IN  FakturowniaAPIException(cls, error_message, I(status_code), error_details)

WriteMethods == {"POST", "PUT"}
ReadMethods == {"GET", "DELETE"}

\* the token goes into the copy of the body or into the copy of the parameters
InjectTokenIntoQuery(h, method, request_params, request_json) ==
    IF method \in WriteMethods \cup ReadMethods
    THEN [h EXCEPT ![request_params] = DictSet(@, "api_token", S(api_token))]
    ELSE h
InjectToken(h, method, request_params, request_json) ==
    IF method \in WriteMethods
    THEN [h EXCEPT ![request_json] = DictSet(@, "api_token", S(api_token))]
    ELSE IF method \in ReadMethods
         THEN [h EXCEPT ![request_params] = DictSet(@, "api_token", S(api_token))]
         ELSE h

\* FakturowniaApiClient._make_request: the heap after the call, the requests
\* handed to the session and the outcome
_make_request(h, method, endpoint, request_params, json_data, response) ==
    LET full_url == base_url \o endpoint
        p == IF TruthyArg(h, request_params)
             THEN DictCopy(h, request_params.ref)
             ELSE NewDict(h, EmptyDict)
        j == IF TruthyArg(p.heap, json_data)
             THEN DictCopy(p.heap, json_data.ref)
             ELSE NewDict(p.heap, EmptyDict)
        h2 == InjectToken(j.heap, method, p.ref, j.ref)
        request == [method |-> method, url |-> full_url,
                    params |-> Deref(h2, Ref(p.ref)), json |-> Deref(h2, Ref(j.ref)),
                    timeout |-> request_timeout, headers |-> session_headers]
    IN  [heap |-> h2,
         sent |-> <<request>>,
         outcome |->
            IF TransportFailed(response)
            THEN TransportFailure(response)
            ELSE IF 200 <= response.status_code /\ response.status_code < 300
                 THEN SuccessResult(response)
                 ELSE ErrorResult(response)]

\* a call of _make_request with keyword arguments kw: Python binds each keyword
\* to the parameter of that name and raises TypeError when there is none
MakeRequestParameters == {"request_params", "json_data"}

CallMakeRequest(h, method, endpoint, kw, response) ==
    IF DOMAIN kw \subseteq MakeRequestParameters
    THEN _make_request(h, method, endpoint,
                       IF "request_params" \in DOMAIN kw THEN kw["request_params"] ELSE None,
                       IF "json_data" \in DOMAIN kw THEN kw["json_data"] ELSE None,
                       response)
    ELSE [heap |-> h, sent |-> <<>>, outcome |-> Raise("TypeError")]

IsRaise(o) == o.tag = "raise"

-----------------------------------------------------------------------------
(* models.py: the pydantic document model                                   *)

DocumentKind ==
    {"vat", "proforma", "correction", "advance", "final", "cost", "accounting_note"}

Get(d, k, default) == IF k \in DOMAIN d THEN d[k] ELSE default

\* InvoicePositionDTO(...): the instance, or pydantic's ValidationError
InvoicePositionDTO(name, quantity, total_price_gross, tax, kind) ==
    IF IsInt(quantity) /\ quantity.int > 0
    THEN Return(Dto([id |-> None, name |-> name, quantity |-> quantity,
                     total_price_gross |-> total_price_gross, tax |-> tax, kind |-> kind]))
    ELSE Raise("PydanticValidationError")

\* InvoiceDTO(...): the instance, or pydantic's ValidationError
InvoiceDTO(kind, sell_date, issue_date, buyer_name, pos) ==
    IF IsStr(kind) /\ kind.str \in DocumentKind /\ Len(pos) >= 1
    THEN Return(Dto([kind |-> kind, sell_date |-> sell_date, issue_date |-> issue_date,
                     buyer_name |-> buyer_name, payment_method |-> S("Przelew"),
                     positions |-> pos, id |-> None]))
    ELSE Raise("PydanticValidationError")

\* model_dump(by_alias=True, exclude_none=True) of a position and of an invoice
DumpPosition(p) ==
    Obj([k \in {f \in DOMAIN p : p[f] # None} |-> p[k]])

ModelDump(d) ==
    Obj([k \in {f \in DOMAIN d.dto : f = "positions" \/ d.dto[f] # None} |->
         IF k = "positions"
         THEN Arr([i \in 1..Len(d.dto.positions) |-> DumpPosition(d.dto.positions[i].dto)])
         ELSE d.dto[k]])

ValidPositionJson(v) ==
    /\ IsObj(v)
    /\ {"name", "quantity", "total_price_gross", "tax"} \subseteq DOMAIN v.obj
    /\ IsInt(v.obj["quantity"])
    /\ v.obj["quantity"].int > 0

ValidInvoiceJson(v) ==
    /\ IsObj(v)
    /\ {"kind", "sell_date", "issue_date", "positions"} \subseteq DOMAIN v.obj
    /\ IsStr(v.obj["kind"])
    /\ v.obj["kind"].str \in DocumentKind
    /\ IsArr(v.obj["positions"])
    /\ Len(v.obj["positions"].arr) >= 1
    /\ \A i \in 1..Len(v.obj["positions"].arr) : ValidPositionJson(v.obj["positions"].arr[i])

PositionFromJson(v) ==
    Dto([id |-> Get(v.obj, "id", None), name |-> v.obj["name"],
         quantity |-> v.obj["quantity"], total_price_gross |-> v.obj["total_price_gross"],
         tax |-> v.obj["tax"], kind |-> Get(v.obj, "kind", None)])

\* InvoiceDTO.model_validate(response_data): unknown fields are ignored
ModelValidate(v) ==
    IF ValidInvoiceJson(v)
    THEN Return(Dto([kind |-> v.obj["kind"], sell_date |-> v.obj["sell_date"],
                     issue_date |-> v.obj["issue_date"],
                     buyer_name |-> Get(v.obj, "buyer_name", None),
                     payment_method |-> Get(v.obj, "payment_method", S("Przelew")),
                     positions |-> [i \in 1..Len(v.obj["positions"].arr) |->
                                     PositionFromJson(v.obj["positions"].arr[i])],
                     id |-> Get(v.obj, "id", None)]))
    ELSE Raise("PydanticValidationError")

-----------------------------------------------------------------------------
(* api_client.py: InvoicesEndpoint                                          *)

IsDto(v) == "dto" \in DOMAIN v

Min(a, b) == IF a < b THEN a ELSE b

Propagate(r, result) ==
    [heap |-> r.heap, sent |-> r.sent,
     outcome |-> IF IsRaise(r.outcome) THEN r.outcome ELSE result]

create_invoice(h, invoice_data, response) ==
    LET payload == NewDict(h, [k \in {"invoice"} |-> ModelDump(invoice_data)])
        r == CallMakeRequest(payload.heap, "POST", endpoint_base,
                             [k \in {"json_data"} |-> Ref(payload.ref)], response)
    IN  Propagate(r, IF IsRaise(r.outcome) THEN None ELSE ModelValidate(r.outcome.value))

get_invoice(h, invoice_id, response) ==
    LET r == CallMakeRequest(h, "GET", ItemEndpoint(invoice_id), EmptyDict, response)
    IN  Propagate(r, IF IsRaise(r.outcome) THEN None ELSE ModelValidate(r.outcome.value))

\* the parameters of list_invoices that a keyword argument binds to
ListParameters ==
    {"period", "date_from", "date_to", "page", "per_page", "include_positions"}

isoformat(d) == S(d.date)

\* the dictionary of query parameters that list_invoices builds from the
\* keyword arguments kw of the call
ListParams(kw) ==
    LET period == Get(kw, "period", S("this_month"))
        date_from == Get(kw, "date_from", None)
        date_to == Get(kw, "date_to", None)
        page == Get(kw, "page", I(1))
        per_page == Get(kw, "per_page", I(MaxPerPage))
        include_positions == Get(kw, "include_positions", B(FALSE))
        kwargs == [k \in DOMAIN kw \ ListParameters |-> kw[k]]
        p0 == [k \in {"period", "page", "per_page"} |->
                 IF k = "period" THEN period
                 ELSE IF k = "page" THEN page
                 ELSE I(Min(per_page.int, MaxPerPage))]
        p1 == IF Truthy(date_from) THEN DictSet(p0, "date_from", isoformat(date_from)) ELSE p0
        p2 == IF Truthy(date_to) THEN DictSet(p1, "date_to", isoformat(date_to)) ELSE p1
        p3 == IF Truthy(include_positions) THEN DictSet(p2, "include_positions", S("true")) ELSE p2
    IN  DictUpdate(p3, kwargs)

list_invoices(h, kw, response) ==
    LET params == NewDict(h, ListParams(kw))
        r == CallMakeRequest(params.heap, "GET", endpoint_base,
                             [k \in {"params"} |-> Ref(params.ref)], response)
    IN  Propagate(r, Return(None))

update_invoice(h, invoice_id, update_data, response) ==
    LET payload == IF IsDto(update_data)
                   THEN NewDict(h, [k \in {"invoice"} |-> ModelDump(update_data)])
                   ELSE NewDict(h, [k \in {"invoice"} |-> update_data])
        r == CallMakeRequest(payload.heap, "PUT", ItemEndpoint(invoice_id),
                             [k \in {"json_data"} |-> Ref(payload.ref)], response)
    IN  Propagate(r, IF IsRaise(r.outcome) THEN None ELSE ModelValidate(r.outcome.value))

delete_invoice_permanently(h, invoice_id, response) ==
    LET r == CallMakeRequest(h, "DELETE", ItemEndpoint(invoice_id), EmptyDict, response)
    IN  Propagate(r, Return(B(TRUE)))

void_invoice(h, invoice_id, reason, response) ==
    LET params == NewDict(h, [k \in {"status"} |-> S(VOID_STATUS)])
        r == CallMakeRequest(params.heap, "POST", ChangeStatusEndpoint(invoice_id),
                             [k \in {"params"} |-> Ref(params.ref)], response)
    IN  Propagate(r, Return(B(TRUE)))

-----------------------------------------------------------------------------
(* The caller's own dictionaries                                            *)

ParamDicts ==
    {EmptyDict, [k \in {"number"} |-> S("FV/1")], [k \in {"api_token"} |-> S("stale")]}
BodyDicts ==
    {[k \in {"invoice"} |-> Ref(3)], [k \in {"api_token"} |-> S("stale")]}
RawDicts ==
    {[k \in {"buyer_name"} |-> S("ACME")], [k \in {"positions"} |-> Arr(<<>>)]}

\* what survives the call: the caller's objects, the call's locals are dropped
Owned(h) == SubSeq(h, 1, Len(orig))

NoCall == [none |-> TRUE]

Init ==
    /\ heap \in {<<p, b, u>> : p \in ParamDicts, b \in BodyDicts, u \in RawDicts}
    /\ orig = heap
    /\ positions = <<>>
    /\ doc = None
    /\ pc = "idle"
    /\ op = "none"
    /\ args = NoCall
    /\ resp = NoCall
    /\ sent = <<>>
    /\ outcome = NoCall

Methods == {"GET", "POST", "PUT", "DELETE", "PATCH"}
InvoiceIds == {42}

\* one call: the caller's objects after it, and what the caller can observe
Called(name, a, response, r) ==
    /\ heap' = Owned(r.heap)
    /\ op' = name
    /\ args' = a
    /\ resp' = response
    /\ sent' = r.sent
    /\ outcome' = r.outcome
    /\ pc' = "done"
    /\ UNCHANGED orig

\* a direct call of the dispatcher
Dispatch ==
    /\ pc = "idle"
    /\ \E method \in Methods, request_params \in {None, Ref(1)},
          json_data \in {None, Ref(2)}, response \in Responses :
         Called("_make_request",
                [method |-> method, request_params |-> request_params,
                 json_data |-> json_data],
                response,
                _make_request(heap, method, endpoint_base, request_params, json_data, response))
    /\ UNCHANGED <<positions, doc>>

Quantities == {-1, 0, 1}
PositionKinds == {None, S("correction")}
MaxPositions == 1

\* the caller constructs a position and, if that succeeds, puts it on its list
NewPosition ==
    /\ pc = "idle"
    /\ Len(positions) < MaxPositions
    /\ \E quantity \in Quantities, kind \in PositionKinds :
         LET made == InvoicePositionDTO(S("Usluga programistyczna"), I(quantity),
                                        S("1230.00"), I(23), kind)
         IN  /\ Called("InvoicePositionDTO", [quantity |-> quantity, kind |-> kind],
                       NoCall, [heap |-> heap, sent |-> <<>>, outcome |-> made])
             /\ positions' = IF IsRaise(made) THEN positions
                             ELSE Append(positions, made.value)
    /\ UNCHANGED doc

InvoiceKinds == {"vat", "faktura"}
Today == S("2024-01-02")

\* the caller constructs a document from its list of positions
NewInvoice ==
    /\ pc = "idle"
    /\ \E kind \in InvoiceKinds :
         LET made == InvoiceDTO(S(kind), Today, Today, S("Nowy Klient"), positions)
         IN  /\ Called("InvoiceDTO", [kind |-> kind, positions |-> positions],
                       NoCall, [heap |-> heap, sent |-> <<>>, outcome |-> made])
             /\ doc' = IF IsRaise(made) THEN doc ELSE made.value
    /\ UNCHANGED positions

CreateInvoice ==
    /\ pc = "idle"
    /\ doc # None
    /\ \E response \in Responses :
         Called("create_invoice", [invoice_data |-> doc], response,
                create_invoice(heap, doc, response))
    /\ UNCHANGED <<positions, doc>>

GetInvoice ==
    /\ pc = "idle"
    /\ \E invoice_id \in InvoiceIds, response \in Responses :
         Called("get_invoice", [invoice_id |-> invoice_id], response,
                get_invoice(heap, invoice_id, response))
    /\ UNCHANGED <<positions, doc>>

PerPages == {-5, 1, 100, 101, 500}
ADate == [date |-> "2024-01-02"]

\* the keyword arguments of a call of list_invoices
ListKeywords ==
    {kw \in UNION {[names -> {I(n) : n \in PerPages} \cup {S("FV/1"), ADate, B(TRUE)}] :
                     names \in SUBSET {"per_page", "number", "date_from", "include_positions"}} :
        /\ "per_page" \in DOMAIN kw => IsInt(kw["per_page"])
        /\ "number" \in DOMAIN kw => kw["number"] = S("FV/1")
        /\ "date_from" \in DOMAIN kw => kw["date_from"] = ADate
        /\ "include_positions" \in DOMAIN kw => kw["include_positions"] = B(TRUE)}

\* the transport's behaviours tried with list_invoices and void_invoice
FewResponses ==
    {r \in Responses :
        \/ TransportFailed(r) /\ r.exception = "ConnectionError"
        \/ ~TransportFailed(r) /\ r.status_code \in {200, 204, 404}
                               /\ r.content \in {"", ListBody, HtmlBody}}

ListInvoices ==
    /\ pc = "idle"
    /\ \E kw \in ListKeywords, response \in FewResponses :
         Called("list_invoices", kw, response, list_invoices(heap, kw, response))
    /\ UNCHANGED <<positions, doc>>

UpdateInvoice ==
    /\ pc = "idle"
    /\ \E invoice_id \in InvoiceIds, update_data \in {doc, Ref(3)} \ {None},
          response \in Responses :
         Called("update_invoice", [invoice_id |-> invoice_id, update_data |-> update_data],
                response, update_invoice(heap, invoice_id, update_data, response))
    /\ UNCHANGED <<positions, doc>>

DeleteInvoicePermanently ==
    /\ pc = "idle"
    /\ \E invoice_id \in InvoiceIds, response \in Responses :
         Called("delete_invoice_permanently", [invoice_id |-> invoice_id], response,
                delete_invoice_permanently(heap, invoice_id, response))
    /\ UNCHANGED <<positions, doc>>

VoidInvoice ==
    /\ pc = "idle"
    /\ \E invoice_id \in InvoiceIds, reason \in {None, S("pomylka")},
          response \in FewResponses :
         Called("void_invoice", [invoice_id |-> invoice_id, reason |-> reason], response,
                void_invoice(heap, invoice_id, reason, response))
    /\ UNCHANGED <<positions, doc>>

\* the caller takes the outcome and goes on
CallerContinues ==
    /\ pc = "done"
    /\ pc' = "idle"
    /\ op' = "none"
    /\ args' = NoCall
    /\ resp' = NoCall
    /\ sent' = <<>>
    /\ outcome' = NoCall
    /\ UNCHANGED <<heap, orig, positions, doc>>

Next ==
    \/ Dispatch
    \/ NewPosition
    \/ NewInvoice
    \/ CreateInvoice
    \/ GetInvoice
    \/ ListInvoices
    \/ UpdateInvoice
    \/ DeleteInvoicePermanently
    \/ VoidInvoice
    \/ CallerContinues

Spec == Init /\ [][Next]_vars

-----------------------------------------------------------------------------
(* Properties                                                               *)

\* the client's token is a top-level field of a serialised mapping
HasToken(o) ==
    /\ IsObj(o)
    /\ "api_token" \in DOMAIN o.obj
    /\ o.obj["api_token"] = S(api_token)

TokenInBodyOnly(q) == HasToken(q.json) /\ ~HasToken(q.params)
TokenInQueryOnly(q) == HasToken(q.params) /\ ~HasToken(q.json)

C2_ResourceTokenPlace ==
    pc = "done" =>
        /\ op \in {"create_invoice", "update_invoice"} =>
              Len(sent) = 1 /\ TokenInBodyOnly(sent[1])
        /\ op \in {"get_invoice", "list_invoices", "delete_invoice_permanently",
                   "void_invoice"} =>
              Len(sent) = 1 /\ TokenInQueryOnly(sent[1])
        /\ op = "void_invoice" =>
              /\ sent[1].method = "POST"
              /\ "status" \in DOMAIN sent[1].params.obj
              /\ sent[1].params.obj["status"] = S(VOID_STATUS)

\* the error kind the status code alone determines
KindOfStatus(status) ==
    CASE status = 400 -> "ValidationError"
      [] status \in {401, 403} -> "AuthenticationError"
      [] status = 404 -> "ResourceNotFoundError"
      [] status \in 500..599 -> "ServerError"
      [] OTHER -> "FakturowniaAPIException"

Answered == pc = "done" /\ op = "_make_request" /\ ~TransportFailed(resp)

\* C3: for every response whose status is outside 200-299 dispatch fails with
\* the kind its status determines, carrying that status and, when the body is
\* present, the decoded body as details.
C3_StatusDecidesError ==
    (Answered /\ resp.status_code \notin 200..299) =>
        /\ IsRaise(outcome)
        /\ outcome.exc = KindOfStatus(resp.status_code)
        /\ outcome.status_code = I(resp.status_code)
        /\ (resp.content # "" /\ JsonDecode(resp.content).ok) =>
              outcome.details = JsonDecode(resp.content).value

\* C4: for every response with status in 200-299 dispatch returns null when
\* the status is 204 or the body is empty, returns the decoded JSON value when
\* the body decodes, and otherwise fails with the decode error and no other.
C4_SuccessResult ==
    (Answered /\ resp.status_code \in 200..299) =>
        IF resp.status_code = 204 \/ resp.content = ""
        THEN outcome = Return(None)
        ELSE IF JsonDecode(resp.content).ok
             THEN outcome = Return(JsonDecode(resp.content).value)
             ELSE /\ IsRaise(outcome)
                  /\ outcome.exc = "FakturowniaAPIException"
                  /\ outcome.message = DecodeMessage
                  /\ outcome.status_code = None

\* a 204 that carries a body all the same
C4_Witness ==
    /\ Answered
    /\ resp.status_code = 204
    /\ resp.content = ListBody
    /\ outcome = Return(None)

\* C5: every failure of a dispatch call reaches the caller as an error of the
\* taxonomy that carries a status code and details.
C5_FailuresInTaxonomy ==
    (pc = "done" /\ op = "_make_request" /\ IsRaise(outcome)) =>
        /\ outcome.exc \in Taxonomy
        /\ outcome.status_code # Absent
        /\ outcome.details # Absent

C7_PerPageClamped ==
    (pc = "done" /\ op = "list_invoices") =>
        /\ Len(sent) = 1
        /\ sent[1].method = "GET"
        /\ sent[1].url = base_url \o endpoint_base
        /\ LET n == Get(args, "per_page", I(100)).int
           IN  sent[1].params.obj["per_page"] = I(IF n < 100 THEN n ELSE 100)

\* the service answers the request with a JSON array
AnswersArray ==
    /\ ~TransportFailed(resp)
    /\ resp.status_code \in 200..299
    /\ resp.status_code # 204
    /\ resp.content # ""
    /\ JsonDecode(resp.content).ok
    /\ IsArr(JsonDecode(resp.content).value)

\* C8: when the service answers list's request with a JSON array, list
\* returns that decoded array, entries and order unchanged.
C8_ListReturnsArray ==
    (pc = "done" /\ op = "list_invoices" /\ AnswersArray) =>
        outcome = Return(JsonDecode(resp.content).value)

\* C9: after any sequence of calls, whatever their outcome, every mapping the
\* caller passed in has the keys and values it had before, and the injected
\* token is in none of them.
C9_CallerMappingsUntouched ==
    /\ heap = orig
    /\ \A i \in 1..Len(heap) :
          ~("api_token" \in DOMAIN heap[i] /\ heap[i]["api_token"] = S(api_token))

\* a partial update from the caller's raw mapping, sent with the token
C9_Witness ==
    /\ pc = "done"
    /\ op = "update_invoice"
    /\ args.update_data = Ref(3)
    /\ Len(sent) = 1
    /\ HasToken(sent[1].json)
    /\ sent[1].json.obj["invoice"] = Obj(orig[3])

\* C10: constructing a document with no positions, or a position with
\* quantity <= 0 outside a correction, fails with the taxonomy's Validation
\* error before any request, and the payload of create and update never
\* holds such a document.
C10_InvalidDocumentRejected ==
    /\ (pc = "done" /\ op = "InvoiceDTO" /\ args.positions = <<>>) =>
          IsRaise(outcome) /\ outcome.exc = "ValidationError" /\ sent = <<>>
    /\ (pc = "done" /\ op = "InvoicePositionDTO" /\ args.quantity <= 0 /\ args.kind = None) =>
          IsRaise(outcome) /\ outcome.exc = "ValidationError" /\ sent = <<>>
    /\ (pc = "done" /\ (op = "create_invoice"
                        \/ (op = "update_invoice" /\ IsDto(args.update_data)))) =>
          \A i \in 1..Len(sent) :
             LET pos == sent[i].json.obj["invoice"].obj["positions"].arr
             IN  /\ pos # <<>>
                 /\ \A j \in 1..Len(pos) : pos[j].obj["quantity"].int > 0

====
